---- MODULE Spec2Model ----
(***************************************************************************)
(* Interaction state machine of DigitalTwinViewer                          *)
(* (src/src/components/dashboard/DigitalTwinViewer.jsx, lines 1195-1864)   *)
(* together with the overlay components that call back into it.            *)
(*                                                                         *)
(* Lengths are whole scene units.  The camera is kept in cylindrical form:  *)
(* r is the horizontal radius sqrt(x^2 + z^2), y the height; the azimuth   *)
(* is not tracked.  A mesh is identified by the                            *)
(* scene generation that created it and its index in                       *)
(* warehouse.userData.components; its tint is the emissive colour of the   *)
(* material object it was constructed with, which addFraming shares        *)
(* between all meshes built from the same material argument.               *)
(*                                                                         *)
(* The last part follows the structure generator createWarehouse           *)
(* (lines 442-1163) pass by pass.                                          *)
(***************************************************************************)
EXTENDS Integers, Sequences, FiniteSets, TLC

\* ---- bounds of the model ------------------------------------------------
\* Every run of the mount effect, every zoom request since the last mount and
\* every pending timeout costs one unit; a behaviour spends at most MaxCost
\* units under Spec, CamMaxCost under CamSpec (which follows the camera
\* through long runs of zoom requests), LiveMaxCost under LiveSpec (which
\* follows overlapping pings) and MountMaxCost under MountSpec (which follows
\* the effect through re-runs, failed renderer creations and the unmount).
\* GenSpec follows MaxRuns calls of createWarehouse.
MaxCost == 3
CamMaxCost == 9
LiveMaxCost == 6
MountMaxCost == 4
MaxRuns == 2
NumMembers == 2
NumPanels == 2
NumSensors == 3

\* ---- program constants (scene units, pixels) -----------------------------
DragThreshold == 5
MinDist == 10
MaxDist == 45
MinHeight == 3
MaxHeight == 25

\* null / undefined of an id-valued state cell (useState(null))
None == 0

\* null of a mesh-valued cell, and of a position-valued one
NoMesh == [gen |-> -1, idx |-> 0]

NoPos == [x |-> -1, y |-> -1]

Members == 1..NumMembers
Panels == 1..NumPanels
Sensors == 1..NumSensors

\* pointer positions (pixels) on one horizontal line, further apart than the
\* drag threshold
Pos == {[x |-> 0, y |-> 0], [x |-> 6, y |-> 0]}

\* pointer positions of CamSpec: a vertical move that changes the height of
\* a dragged camera
CamPos == {[x |-> 0, y |-> 0], [x |-> 0, y |-> 400]}

Tints == {"none", "hover", "selected"}
MatNames == {"framingMat", "heavyFramingMat"}

\* material argument of the addFraming call that creates member m
Mat(m) == IF m % 3 = 0 THEN "heavyFramingMat" ELSE "framingMat"

\* sensor.panel_id; a sensor whose id exceeds NumPanels references no panel
PanelIdOf(s) == s

\* variant: the lookup falls back to the first supplied panel
FindPanelOrFirst(id) == IF id \in Panels THEN id ELSE 1

\* panels.find(p => p.panel_id === id), undefined rendered as None
FindPanel(id) == IF id \in Panels THEN id ELSE None

Mesh(g, m) == [gen |-> g, idx |-> m]

VARIABLES
  selectedComponent, hoveredComponent, isRotating, selectedPanel,
  selectedSensor, pingingPanelId,
  isDraggingRef, previousMouseRef, panelMarkersRef, sensorMarkersRef,
  selectedComponentRef, hoveredComponentRef,
  camera, emissive, gen, loops, timers, isPinging,
  ptr, button, clickPending, downPos, last, zooms, limit,
  mounted, webglError, listeners, canvases, cleanups, contextLoss,
  positions, stale, tracked,
  phase, idx, iter, _id, components, silent, readings, run, firstRun

\* state of the viewer
viewVars == <<selectedComponent, hoveredComponent, isRotating, selectedPanel,
          selectedSensor, pingingPanelId,
          isDraggingRef, previousMouseRef, panelMarkersRef, sensorMarkersRef,
          selectedComponentRef, hoveredComponentRef,
          camera, emissive, gen, loops, timers, isPinging,
          ptr, button, clickPending, downPos, last, zooms, limit,
          mounted, webglError, listeners, canvases, cleanups, contextLoss,
          positions, stale, tracked>>

\* state of a createWarehouse call: position in the program (phase, idx,
\* iter), the id counter, the registry, the wall framing placed by
\* buildWallStuds, the readings drawn last, the number of the call and the
\* result of the first call
genVars == <<phase, idx, iter, _id, components, silent, readings, run,
             firstRun>>

vars == <<viewVars, genVars>>

\* ---- camera arithmetic ---------------------------------------------------
Abs(n) == IF n < 0 THEN -n ELSE n

Dist2(c) == c.r * c.r + c.y * c.y

SqrtFloor(n) == CHOOSE k \in 0..100 : k * k <= n /\ (k + 1) * (k + 1) > n

SqrtCeil(n) == IF SqrtFloor(n) * SqrtFloor(n) = n THEN SqrtFloor(n)
               ELSE SqrtFloor(n) + 1

CeilDiv(a, b) == (a + b - 1) \div b

\* camera.position.set(20, 12, 18): r = sqrt(20^2 + 18^2) = 26.9
DefaultCam == [r |-> 27, y |-> 12]

\* position written by the auto-rotation branch of animate:
\* x = 22 cos(a) + 2, z = 22 sin(a), y = 12 + 2 sin(a/2), where a grows by
\* 0.0008 per frame from 0 at every mount; during the first seconds of a
\* mount (a < 0.3) this is within half a unit of r = 24, y = 12
OrbitPos == [r |-> 24, y |-> 12]

\* Vector3.multiplyScalar(num/den)
MultiplyScalar(c, num, den) == [r |-> (c.r * num) \div den,
                                y |-> (c.y * num) \div den]

\* Vector3.normalize().multiplyScalar(L); the exact result has length L, the
\* grid value is rounded towards the side of L the exact value lies on
SetLength(c, L) ==
  IF Dist2(c) = 0 THEN c
  ELSE IF Dist2(c) < L * L
       THEN [r |-> CeilDiv(L * c.r, SqrtFloor(Dist2(c))),
             y |-> CeilDiv(L * c.y, SqrtFloor(Dist2(c)))]
       ELSE [r |-> (L * c.r) \div SqrtCeil(Dist2(c)),
             y |-> (L * c.y) \div SqrtCeil(Dist2(c))]

\* variant: only the lower end of the band is enforced
ClampDistanceMinOnly(c) ==
  IF Dist2(c) < MinDist * MinDist THEN SetLength(c, MinDist) ELSE c

\* the "Clamp distance" block shared by onWheel and handleZoom
ClampDistance(c) ==
  IF Dist2(c) < MinDist * MinDist THEN SetLength(c, MinDist)
  ELSE IF Dist2(c) > MaxDist * MaxDist THEN SetLength(c, MaxDist)
  ELSE c

ClampHeight(y) == IF y < MinHeight THEN MinHeight
                  ELSE IF y > MaxHeight THEN MaxHeight ELSE y

\* manual camera rotation of onMouseMove: radius kept, height moved by
\* deltaY * 0.05 units and clamped
DragCamera(c, deltaY) == [r |-> c.r, y |-> ClampHeight(c.y - deltaY \div 20)]

\* ---- tints ---------------------------------------------------------------
\* mesh.material.emissive.setHex(t)
SetHex(em, mesh, t) == [em EXCEPT ![mesh.gen][Mat(mesh.idx)] = t]

TintOf(mesh) == emissive[mesh.gen][Mat(mesh.idx)]

\* a material object is live while it belongs to the scene of generation g or
\* to a mesh that selectedComponentRef or hoveredComponent still references;
\* the colour of any other material can be neither read nor written again and
\* is dropped from the state
LiveMaterial(g, n, cur, sel, hov) ==
  \/ g = cur
  \/ sel # NoMesh /\ sel.gen = g /\ Mat(sel.idx) = n
  \/ hov # NoMesh /\ hov.gen = g /\ Mat(hov.idx) = n

Collect(em, cur, sel, hov) ==
  [g \in 0..limit |-> [n \in MatNames |->
      IF LiveMaterial(g, n, cur, sel, hov) THEN em[g][n] ELSE "none"]]

\* a camera pose that was not taken
NoPose == [r |-> 0, y |-> 0]

\* what a call of renderer.render drew: the pose of the camera passed to it
\* and the animation state of the panel rings
NoShot == [pose |-> NoPose, ring |-> "none"]

\* one call of animate by the closure of effect run loop: the pose of the
\* camera of that closure, the animation state of the panel rings, what
\* renderer.render drew and the camera pose setMarkerPositions published a
\* projection from
NoFrame ==
  [loop |-> -1, pose |-> NoPose, ring |-> "none", rendered |-> NoShot,
   projected |-> NoPose]

\* ---- history record of the last handler that ran -------------------------
\* tested: the handler performed its ray cast; marker, member: what the ray
\* cast consulted by a click intersected; covered: the ray of a marker click
\* also passed through a member
Ev(op, arg, tested, marker, member) ==
  [op |-> op, arg |-> arg, tested |-> tested, marker |-> marker,
   member |-> member, covered |-> FALSE, frame |-> NoFrame]

Displaced(a, b) ==
  Abs(a.x - b.x) > DragThreshold \/ Abs(a.y - b.y) > DragThreshold

NoMarker == [type |-> "none", id |-> 0]

\* ---- overlay visibility --------------------------------------------------
\* PanelDetailView and SensorActionModal render a fixed full-screen backdrop
\* above the canvas, so the canvas receives no pointer event while either shows
ModalOpen == selectedPanel # None \/ selectedSensor # None

Ready == mounted /\ ~clickPending

\* panel_name of a supplied panel record, a non-empty string
PanelName(p) == "Panel " \o ToString(p)

\* the Location field of SensorActionModal: panel?.panel_name || 'Unknown'
ModalLocation(panel) == IF panel = None THEN "Unknown" ELSE PanelName(panel)

\* the listeners the mount effect attaches: five on the container, resize on
\* window
ListenerTypes ==
  {"mousemove", "mousedown", "mouseup", "click", "wheel", "resize"}

AttachListeners(g) == {[gen |-> g, type |-> t] : t \in ListenerTypes}

\* the container dispatches an event of type t to a handler of the current
\* effect run
Listening(t) == [gen |-> gen, type |-> t] \in listeners

CanvasReady == Ready /\ ~ModalOpen

\* ---- mount effect --------------------------------------------------------
\* what the position field of a supplied panel or sensor record holds:
\* three finite numbers, a NaN or infinite coordinate, or nothing
PosKinds == {"finite", "nonfinite", "missing"}

Min(S) == CHOOSE n \in S : \A k \in S : n <= k

\* records whose position is undefined: reading position.x throws
MissingPanels == {i \in Panels : positions.panel[i] = "missing"}

MissingSensors == {i \in Sensors : positions.sensor[i] = "missing"}

\* the two forEach loops of the mount effect throw a TypeError at the first
\* record without a position
MarkersThrow == MissingPanels # {} \/ MissingSensors # {}

\* number of panel and sensor records whose marker is pushed before the
\* loops end or throw
PanelsPushed ==
  IF MissingPanels = {} THEN NumPanels ELSE Min(MissingPanels) - 1

SensorsPushed ==
  IF MissingPanels # {} THEN 0
  ELSE IF MissingSensors = {} THEN NumSensors ELSE Min(MissingSensors) - 1

NewPanelMarkers(g) == [i \in 1..PanelsPushed |-> [gen |-> g, panel |-> i]]

NewSensorMarkers(g) == [i \in 1..SensorsPushed |-> [gen |-> g, sensor |-> i]]

DepsChanged ==
  <<isRotating', hoveredComponent', pingingPanelId'>> #
  <<isRotating, hoveredComponent, pingingPanelId>>

\* outcomes of new THREE.WebGLRenderer(...): TRUE when the constructor
\* returns, FALSE when it throws; contextLoss tells whether the environment
\* can refuse a rendering context
ContextOutcomes == IF contextLoss THEN BOOLEAN ELSE {TRUE}

\* the effect run of generation gen returned a cleanup function: it got past
\* the try block, so it also started its render loop
HasCleanup == gen \in loops

\* variant: the cleanup leaves the wheel listener attached
DetachListenersKeepsWheel(ls, g) ==
  {l \in ls : l.gen # g \/ l.type = "wheel"}

\* the removeEventListener calls of the cleanup returned by effect run g
DetachListeners(ls, g) == {l \in ls : l.gen # g}

\* the cleanup returned by the effect run of the current generation: it
\* removes the six listeners, disposes the renderer and removes its canvas.
\* It cancels no frame callback and does not empty the marker refs.
CleanupListeners == IF HasCleanup THEN DetachListeners(listeners, gen)
                    ELSE listeners

CleanupCanvases == IF HasCleanup THEN canvases \ {gen} ELSE canvases

CleanupCount == IF HasCleanup THEN [cleanups EXCEPT ![gen] = @ + 1]
                ELSE cleanups

\* the effect body throws out of a marker loop: React removes the component
\* tree, and the run has returned no cleanup
Throws(ok) == ok /\ MarkersThrow

\* the effect body reaches its end
Completes(ok) == ok /\ ~MarkersThrow

\* cleanup of the previous effect run followed by the effect body; cam is
\* where the handler left the camera of the previous run, which the animate
\* closure of that run keeps, with the isRotating and pingingPanelId values
\* it captured.  The body
\* creates a scene and a camera, then the renderer; when that throws it sets
\* webglError and returns.  Otherwise it appends the canvas, builds the
\* warehouse and the marker set, attaches the listeners and makes the first
\* call of animate.
Mount(ok, cam) ==
  /\ gen' = gen + 1
  /\ camera' = IF Completes(ok) /\ isRotating' THEN OrbitPos ELSE DefaultCam
  /\ hoveredComponentRef' = IF Completes(ok) THEN hoveredComponent'
                            ELSE hoveredComponentRef
  /\ panelMarkersRef' = IF ok THEN panelMarkersRef \o NewPanelMarkers(gen + 1)
                        ELSE panelMarkersRef
  /\ sensorMarkersRef' = IF ok
                         THEN sensorMarkersRef \o NewSensorMarkers(gen + 1)
                         ELSE sensorMarkersRef
  /\ loops' = IF Completes(ok) THEN loops \cup {gen + 1} ELSE loops
  /\ stale' = IF tracked /\ gen \in loops
              THEN stale @@ (gen :> [isRotating |-> isRotating,
                                     pingingPanelId |-> pingingPanelId,
                                     camera |-> cam])
              ELSE stale
  /\ listeners' = IF Completes(ok)
                  THEN CleanupListeners \cup AttachListeners(gen + 1)
                  ELSE CleanupListeners
  /\ canvases' = IF ok THEN CleanupCanvases \cup {gen + 1}
                 ELSE CleanupCanvases
  /\ cleanups' = CleanupCount
  /\ webglError' = (webglError \/ ~ok)
  /\ mounted' = ~Throws(ok)

\* React re-render after a handler: the mount effect re-runs when changed
RerenderIf(changed, cam, em) ==
  /\ zooms' = IF changed THEN 0
              ELSE IF last'.op = "zoom" THEN zooms + 1 ELSE zooms
  /\ emissive' = Collect(em, IF changed THEN gen + 1 ELSE gen,
                         selectedComponentRef', hoveredComponent')
  /\ IF changed
     THEN \E ok \in ContextOutcomes : Mount(ok, cam)
     ELSE /\ camera' = cam
          /\ UNCHANGED <<gen, hoveredComponentRef, panelMarkersRef,
                         sensorMarkersRef, loops, listeners, canvases,
                         cleanups, webglError, mounted, stale>>
  /\ gen' + zooms' + Len(timers') <= limit
  /\ UNCHANGED <<limit, contextLoss>>
  /\ UNCHANGED <<positions, tracked, genVars>>

\* the dependencies a handler can change are
\* [isRotating, hoveredComponent, pingingPanelId]
Rerender(cam, em) == RerenderIf(DepsChanged, cam, em)

\* state after the first run of the mount effect; ok is the outcome of its
\* renderer creation
InitState(ok) ==
  /\ selectedComponent = None
  /\ hoveredComponent = NoMesh
  /\ isRotating = TRUE
  /\ selectedPanel = None
  /\ selectedSensor = None
  /\ pingingPanelId = None
  /\ isDraggingRef = FALSE
  /\ previousMouseRef = [x |-> 0, y |-> 0]
  /\ panelMarkersRef = IF ok THEN NewPanelMarkers(0) ELSE <<>>
  /\ sensorMarkersRef = IF ok THEN NewSensorMarkers(0) ELSE <<>>
  /\ selectedComponentRef = NoMesh
  /\ hoveredComponentRef = NoMesh
  /\ camera = IF Completes(ok) THEN OrbitPos ELSE DefaultCam
  /\ emissive = [g \in 0..limit |-> [m \in MatNames |-> "none"]]
  /\ gen = 0
  /\ loops = IF Completes(ok) THEN {0} ELSE {}
  /\ stale = <<>>
  /\ timers = <<>>
  /\ isPinging = FALSE
  /\ ptr = [x |-> 0, y |-> 0]
  /\ button = FALSE
  /\ clickPending = FALSE
  /\ downPos = NoPos
  /\ last = Ev("other", None, FALSE, NoMarker, None)
  /\ zooms = 0
  /\ mounted = ~Throws(ok)
  /\ webglError = ~ok
  /\ listeners = IF Completes(ok) THEN AttachListeners(0) ELSE {}
  /\ canvases = IF ok THEN {0} ELSE {}
  /\ cleanups = [g \in 0..limit |-> 0]

\* a createWarehouse call at its first addFraming
GenState ==
  /\ phase = "corner"
  /\ idx = 0
  /\ iter = 0
  /\ _id = 0
  /\ components = <<>>
  /\ silent = {}
  /\ readings = <<0, 0>>
  /\ run = 1
  /\ firstRun = [components |-> <<>>, readings |-> <<0, 0>>]

\* the viewer with a rendering context that is always granted; the steps of
\* the generator inside the mount effect are not followed
\* supplied records that all carry a finite position
AllFinite ==
  [panel |-> [i \in Panels |-> "finite"], sensor |-> [i \in Sensors |-> "finite"]]

\* supplied records of which at most one lacks a finite position
SuppliedData ==
  {d \in [panel : [Panels -> PosKinds], sensor : [Sensors -> PosKinds]] :
     Cardinality({i \in Panels : d.panel[i] # "finite"}) +
     Cardinality({i \in Sensors : d.sensor[i] # "finite"}) <= 1}

ViewInit(cost) ==
  /\ limit = cost
  /\ contextLoss = FALSE
  /\ positions = AllFinite
  /\ tracked = FALSE
  /\ InitState(TRUE)
  /\ GenState

Init == ViewInit(MaxCost)

CamInit == ViewInit(CamMaxCost)

LiveInit == ViewInit(LiveMaxCost)

MountInit ==
  /\ limit = MountMaxCost
  /\ contextLoss = TRUE
  /\ positions = AllFinite
  /\ tracked = FALSE
  /\ \E ok \in BOOLEAN : InitState(ok)
  /\ GenState

\* the viewer mounted with any supplied data
DataInit ==
  /\ limit = MaxCost
  /\ contextLoss = FALSE
  /\ positions \in SuppliedData
  /\ tracked = FALSE
  /\ InitState(TRUE)
  /\ GenState

\* the generator alone, called MaxRuns times
GenInit == ViewInit(MaxCost)

\* ---- pointer handlers on the container -----------------------------------
\* hover branch of onMouseMove; hit is intersects[0].object of the ray cast
\* against warehouse.userData.components, None when the ray misses
HoverTint(hit) ==
  IF hit # None
  THEN IF Mesh(gen, hit) # selectedComponentRef
       THEN SetHex(emissive, Mesh(gen, hit), "hover")
       ELSE emissive
  ELSE IF hoveredComponentRef # NoMesh /\ hoveredComponentRef # selectedComponentRef
       THEN SetHex(emissive, hoveredComponentRef, "none")
       ELSE emissive

\* variant: the drag orbit is applied whenever the dragging flag is set
DragAppliesWhileRotating == isDraggingRef

\* the guard of the manual camera rotation: isDraggingRef.current && !isRotating
DragApplies == isDraggingRef /\ ~isRotating

OnMouseMove(p, hit) ==
  /\ CanvasReady
  /\ Listening("mousemove")
  /\ ptr' = p
  /\ previousMouseRef' = p
  /\ hoveredComponent' = IF isDraggingRef THEN hoveredComponent
                         ELSE IF hit # None THEN Mesh(gen, hit) ELSE NoMesh
  /\ last' = Ev("move", None, ~isDraggingRef, NoMarker, None)
  /\ UNCHANGED <<selectedComponent, isRotating, selectedPanel, selectedSensor,
                 pingingPanelId, isDraggingRef, selectedComponentRef, timers,
                 isPinging, button, clickPending, downPos>>
  /\ Rerender(IF DragApplies
              THEN DragCamera(camera, p.y - previousMouseRef.y)
              ELSE camera,
              IF isDraggingRef THEN emissive ELSE HoverTint(hit))

OnMouseDown ==
  /\ CanvasReady
  /\ Listening("mousedown")
  /\ ~button
  /\ isDraggingRef' = TRUE
  /\ previousMouseRef' = ptr
  /\ isRotating' = FALSE
  /\ button' = TRUE
  /\ downPos' = ptr
  /\ last' = Ev("down", None, FALSE, NoMarker, None)
  /\ UNCHANGED <<selectedComponent, hoveredComponent, selectedPanel,
                 selectedSensor, pingingPanelId, selectedComponentRef,
                 timers, isPinging, ptr, clickPending>>
  /\ Rerender(camera, emissive)

\* variant: releasing the button resumes auto-rotation
MouseUpResumesRotation == TRUE

\* state after onMouseUp: the dragging flag is cleared, isRotating is not
\* written
MouseUpDragging == FALSE

MouseUpRotating == isRotating

\* the browser dispatches the click right after a mouse-up whose mouse-down
\* was on the same element
OnMouseUp ==
  /\ Ready
  /\ button
  /\ Listening("mouseup")
  /\ isDraggingRef' = MouseUpDragging
  /\ isRotating' = MouseUpRotating
  /\ button' = FALSE
  /\ clickPending' = TRUE
  /\ last' = Ev("up", None, FALSE, NoMarker, None)
  /\ UNCHANGED <<selectedComponent, hoveredComponent, selectedPanel,
                 selectedSensor, pingingPanelId, previousMouseRef,
                 selectedComponentRef, timers, isPinging, ptr,
                 downPos>>
  /\ Rerender(camera, emissive)

\* the button is released outside the container, or while no mouseup
\* listener is attached: no handler runs
ReleaseOutside ==
  /\ Ready
  /\ button
  /\ button' = FALSE
  /\ UNCHANGED <<zooms, limit, mounted, webglError, listeners, canvases,
                 cleanups, contextLoss>>
  /\ UNCHANGED <<positions, stale, tracked, genVars>>
  /\ last' = Ev("other", None, FALSE, NoMarker, None)
  /\ UNCHANGED <<selectedComponent, hoveredComponent, isRotating,
                 selectedPanel, selectedSensor, pingingPanelId, isDraggingRef,
                 previousMouseRef, panelMarkersRef, sensorMarkersRef,
                 selectedComponentRef, hoveredComponentRef, camera,
                 emissive, gen, loops, timers, isPinging, ptr, clickPending>>
  /\ downPos' = NoPos

\* first test of onClick: "Was dragging"
WasDragging(ev) ==
  \/ Abs(ev.x - previousMouseRef.x) > DragThreshold
  \/ Abs(ev.y - previousMouseRef.y) > DragThreshold

\* parent groups of the meshes a ray can intersect among allMarkers; a group
\* placed at a NaN or infinite coordinate fails every ray-sphere test
MarkerHits ==
  {[type |-> "panel", id |-> panelMarkersRef[i].panel] :
      i \in {k \in 1..Len(panelMarkersRef) :
               positions.panel[panelMarkersRef[k].panel] = "finite"}} \cup
  {[type |-> "sensor", id |-> sensorMarkersRef[i].sensor] :
      i \in {k \in 1..Len(sensorMarkersRef) :
               positions.sensor[sensorMarkersRef[k].sensor] = "finite"}}

\* variant: the marker branch keeps the selected member
MarkerSelectionKeepsMember(mk) ==
  IF mk.type = "panel"
  THEN [panel |-> mk.id, sensor |-> selectedSensor,
        component |-> selectedComponent]
  ELSE [panel |-> FindPanel(PanelIdOf(mk.id)), sensor |-> mk.id,
        component |-> selectedComponent]

\* selection written by the marker branch of onClick
MarkerSelection(mk) ==
  IF mk.type = "panel"
  THEN [panel |-> mk.id, sensor |-> selectedSensor, component |-> None]
  ELSE [panel |-> FindPanel(PanelIdOf(mk.id)), sensor |-> mk.id,
        component |-> None]

\* emissive colours after the component branch of onClick selected member mh
SelectTint(mh) ==
  SetHex(IF selectedComponentRef # NoMesh /\ selectedComponentRef # Mesh(gen, mh)
         THEN SetHex(emissive, selectedComponentRef, "none")
         ELSE emissive,
         Mesh(gen, mh), "selected")

\* variant: members are hit-tested before markers
ClickTargetMembersFirst(mk, mh) ==
  IF mh # None THEN "member" ELSE IF mk # NoMarker THEN "marker" ELSE "miss"

\* which ray cast onClick consults: markers first, members only without a
\* marker hit
ClickTarget(mk, mh) ==
  IF mk # NoMarker THEN "marker" ELSE IF mh # None THEN "member" ELSE "miss"

OnClick(mk, mh) ==
  /\ mounted
  /\ clickPending
  /\ Listening("click")
  /\ clickPending' = FALSE
  /\ IF WasDragging(ptr)
     THEN /\ last' = Ev("click", None, FALSE, NoMarker, None)
          /\ UNCHANGED <<selectedComponent, selectedPanel, selectedSensor,
                         selectedComponentRef>>
     ELSE /\ last' = [Ev("click", None, TRUE, mk,
                           IF mk = NoMarker THEN mh ELSE None)
                        EXCEPT !.covered = (mk # NoMarker /\ mh # None)]
          /\ CASE ClickTarget(mk, mh) = "marker" ->
                    /\ selectedPanel' = MarkerSelection(mk).panel
                    /\ selectedSensor' = MarkerSelection(mk).sensor
                    /\ selectedComponent' = MarkerSelection(mk).component
                    /\ UNCHANGED selectedComponentRef
               [] ClickTarget(mk, mh) = "member" ->
                    /\ selectedComponentRef' = Mesh(gen, mh)
                    /\ selectedComponent' = mh
                    /\ selectedPanel' = None
                    /\ selectedSensor' = None
               [] OTHER ->
                    UNCHANGED <<selectedComponent, selectedPanel,
                                selectedSensor, selectedComponentRef>>
  /\ UNCHANGED <<hoveredComponent, isRotating, pingingPanelId, isDraggingRef,
                 previousMouseRef, timers, isPinging, ptr, button>>
  /\ downPos' = NoPos
  /\ Rerender(camera,
              IF ~WasDragging(ptr) /\ ClickTarget(mk, mh) = "member"
              THEN SelectTint(mh) ELSE emissive)

\* factor of onWheel as a fraction over 10
WheelFactor(deltaY) == IF deltaY > 0 THEN 11 ELSE 9

OnWheel(deltaY) ==
  /\ CanvasReady
  /\ Listening("wheel")
  /\ last' = Ev("zoom", None, FALSE, NoMarker, None)
  /\ UNCHANGED <<selectedComponent, hoveredComponent, isRotating,
                 selectedPanel, selectedSensor, pingingPanelId, isDraggingRef,
                 previousMouseRef, selectedComponentRef, timers,
                 isPinging, ptr, button, clickPending, downPos>>
  /\ Rerender(ClampDistance(MultiplyScalar(camera, WheelFactor(deltaY), 10)), emissive)

\* ---- view controls -------------------------------------------------------
HandleZoomIn ==
  /\ Ready
  /\ last' = Ev("zoom", None, FALSE, NoMarker, None)
  /\ UNCHANGED <<selectedComponent, hoveredComponent, isRotating,
                 selectedPanel, selectedSensor, pingingPanelId, isDraggingRef,
                 previousMouseRef, selectedComponentRef, timers,
                 isPinging, ptr, button, clickPending, downPos>>
  /\ Rerender(ClampDistance(MultiplyScalar(camera, 9, 10)), emissive)

HandleZoomOut ==
  /\ Ready
  /\ last' = Ev("zoom", None, FALSE, NoMarker, None)
  /\ UNCHANGED <<selectedComponent, hoveredComponent, isRotating,
                 selectedPanel, selectedSensor, pingingPanelId, isDraggingRef,
                 previousMouseRef, selectedComponentRef, timers,
                 isPinging, ptr, button, clickPending, downPos>>
  /\ Rerender(ClampDistance(MultiplyScalar(camera, 11, 10)), emissive)

HandleZoomReset ==
  /\ Ready
  /\ isRotating' = TRUE
  /\ selectedComponent' = None
  /\ last' = Ev("reset", None, FALSE, NoMarker, None)
  /\ UNCHANGED <<hoveredComponent, selectedPanel, selectedSensor,
                 pingingPanelId, isDraggingRef, previousMouseRef,
                 selectedComponentRef, timers, isPinging, ptr,
                 button, clickPending, downPos>>
  /\ Rerender(ClampDistance(DefaultCam), emissive)

\* ---- overlay callbacks ---------------------------------------------------
\* ComponentPropertiesPanel onClose
ClosePropertiesPanel ==
  /\ Ready
  /\ selectedComponent # None
  /\ selectedComponent' = None
  /\ last' = Ev("other", None, FALSE, NoMarker, None)
  /\ UNCHANGED <<hoveredComponent, isRotating, selectedPanel, selectedSensor,
                 pingingPanelId, isDraggingRef, previousMouseRef,
                 selectedComponentRef, timers, isPinging, ptr, button,
                 clickPending, downPos>>
  /\ Rerender(camera,
              IF selectedComponentRef # NoMesh
              THEN SetHex(emissive, selectedComponentRef, "none")
              ELSE emissive)

\* PanelDetailView onClose
ClosePanelDetail ==
  /\ Ready
  /\ selectedPanel # None /\ selectedSensor = None
  /\ selectedPanel' = None
  /\ last' = Ev("other", None, FALSE, NoMarker, None)
  /\ UNCHANGED <<selectedComponent, hoveredComponent, isRotating,
                 selectedSensor, pingingPanelId, isDraggingRef,
                 previousMouseRef, selectedComponentRef, timers,
                 isPinging, ptr, button, clickPending, downPos>>
  /\ Rerender(camera, emissive)

\* PanelDetailView onSensorClick, offered for the sensors of the shown panel
PanelSensorClick(s) ==
  /\ Ready
  /\ selectedPanel # None /\ selectedSensor = None
  /\ PanelIdOf(s) = selectedPanel
  /\ selectedSensor' = s
  /\ last' = Ev("other", None, FALSE, NoMarker, None)
  /\ UNCHANGED <<selectedComponent, hoveredComponent, isRotating,
                 selectedPanel, pingingPanelId, isDraggingRef,
                 previousMouseRef, selectedComponentRef, timers,
                 isPinging, ptr, button, clickPending, downPos>>
  /\ Rerender(camera, emissive)

\* SensorActionModal onClose; unmounting the modal drops its isPinging state
\* and makes its pending continuation a no-op
CloseSensorModal ==
  /\ Ready
  /\ selectedSensor # None
  /\ selectedSensor' = None
  /\ isPinging' = FALSE
  /\ timers' = [i \in 1..Len(timers) |-> [timers[i] EXCEPT !.modal = FALSE]]
  /\ last' = Ev("other", None, FALSE, NoMarker, None)
  /\ UNCHANGED <<selectedComponent, hoveredComponent, isRotating,
                 selectedPanel, pingingPanelId, isDraggingRef,
                 previousMouseRef, selectedComponentRef, ptr,
                 button, clickPending, downPos>>
  /\ Rerender(camera, emissive)

\* handlePing of SensorActionModal calling onPing(sensor): the ping button is
\* disabled while the modal's own isPinging is set.  A pending timeout is
\* recorded with the panel id of the request that scheduled it; its callback
\* does not use that id.
OnPing ==
  /\ Ready
  /\ selectedSensor # None
  /\ ~isPinging
  /\ pingingPanelId' = PanelIdOf(selectedSensor)
  /\ timers' = Append(timers, [modal |-> TRUE,
                              panel |-> PanelIdOf(selectedSensor)])
  /\ isPinging' = TRUE
  /\ last' = Ev("ping", PanelIdOf(selectedSensor), FALSE, NoMarker, None)
  /\ UNCHANGED <<selectedComponent, hoveredComponent, isRotating,
                 selectedPanel, selectedSensor, isDraggingRef,
                 previousMouseRef, selectedComponentRef, ptr,
                 button, clickPending, downPos>>
  /\ Rerender(camera, emissive)

\* variant: the timeout leaves the ping in place
TimeoutKeepsPing == pingingPanelId

\* value the 2s timeout of onPing writes to pingingPanelId
TimeoutValue == None

\* the oldest pending timeout fires (all have the same delay), followed by
\* the continuation of the handlePing that scheduled it
TimerFire ==
  /\ Ready
  /\ timers # <<>>
  /\ pingingPanelId' = TimeoutValue
  /\ timers' = Tail(timers)
  /\ isPinging' = IF Head(timers).modal THEN FALSE ELSE isPinging
  /\ last' = Ev("timer", None, FALSE, NoMarker, None)
  /\ UNCHANGED <<selectedComponent, hoveredComponent, isRotating,
                 selectedPanel, selectedSensor, isDraggingRef,
                 previousMouseRef, selectedComponentRef, ptr,
                 button, clickPending, downPos>>
  /\ Rerender(camera, emissive)

\* ---- render loop ---------------------------------------------------------
\* the statements of animate in their order, each on the frame f its
\* predecessors left.  if (isRotating) { angle += ...; camera.position... }
AutoRotate(f, rot) == IF rot THEN [f EXCEPT !.pose = OrbitPos] ELSE f

\* the two forEach loops over the marker refs: ambient pulse of every ring
AnimateMarkers(f) == [f EXCEPT !.ring = "pulse"]

\* if (pingingPanelId) { find the panel marker; if found, expand its ring }
PingEffect(f, ping) ==
  IF ping # None /\ \E k \in 1..Len(panelMarkersRef) :
                       panelMarkersRef[k].panel = ping
  THEN [f EXCEPT !.ring = "ping"]
  ELSE f

\* renderer.render(scene, camera) with the camera of the closure
RenderScene(f) == [f EXCEPT !.rendered = [pose |-> f.pose, ring |-> f.ring]]

\* updateMarkerPositions(): returns at once without a container, otherwise
\* projects the alerts with cameraRef.current, the camera of the latest
\* effect run, and publishes the result
UpdateMarkerPositions(f) ==
  IF ~mounted THEN f
  ELSE [f EXCEPT !.projected = IF f.loop = gen THEN f.pose ELSE camera]

\* one call of animate by the closure of effect run g, whose camera is at
\* pose and which captured the values rot and ping of isRotating and
\* pingingPanelId
Animate(g, pose, rot, ping) ==
  UpdateMarkerPositions(
    RenderScene(
      PingEffect(
        AnimateMarkers(
          AutoRotate([NoFrame EXCEPT !.loop = g, !.pose = pose], rot)),
        ping)))

\* the frame record kept of a call of animate
Logged(f) == IF tracked THEN f ELSE NoFrame

\* one frame of the animate closure of the current mount
Tick ==
  /\ Ready
  /\ gen \in loops
  /\ camera' = Animate(gen, camera, isRotating, pingingPanelId).pose
  /\ hoveredComponentRef' = hoveredComponent
  /\ UNCHANGED <<zooms, limit, mounted, webglError, listeners, canvases,
                 cleanups, contextLoss>>
  /\ UNCHANGED <<positions, stale, tracked, genVars>>
  /\ last' = [Ev("other", None, FALSE, NoMarker, None) EXCEPT
                !.frame = Logged(Animate(gen, camera, isRotating,
                                         pingingPanelId))]
  /\ UNCHANGED <<selectedComponent, hoveredComponent, isRotating,
                 selectedPanel, selectedSensor, pingingPanelId, isDraggingRef,
                 previousMouseRef, panelMarkersRef, sensorMarkersRef,
                 selectedComponentRef, emissive, gen, loops, timers,
                 isPinging, ptr, button, clickPending, downPos>>

\* one frame of the animate closure of an earlier effect run g, or of any run
\* after the unmount: it moves the camera of its own mount and writes the
\* hoveredComponent value hov its render captured to the shared ref
StaleFrame(g) ==
  IF g = gen THEN Animate(g, camera, isRotating, pingingPanelId)
  ELSE IF g \in DOMAIN stale
       THEN Animate(g, stale[g].camera, stale[g].isRotating,
                    stale[g].pingingPanelId)
       ELSE NoFrame

StaleTick(g, hov) ==
  /\ ~clickPending
  /\ g \in loops
  /\ ~mounted \/ g # gen
  /\ hoveredComponentRef' = hov
  /\ last' = [Ev("stale", g, FALSE, NoMarker, None) EXCEPT
                !.frame = Logged(StaleFrame(g))]
  /\ camera' = IF g = gen THEN StaleFrame(g).pose ELSE camera
  /\ stale' = IF g \in DOMAIN stale
              THEN [stale EXCEPT ![g].camera = StaleFrame(g).pose]
              ELSE stale
  /\ UNCHANGED <<selectedComponent, hoveredComponent, isRotating,
                 selectedPanel, selectedSensor, pingingPanelId, isDraggingRef,
                 previousMouseRef, panelMarkersRef, sensorMarkersRef,
                 selectedComponentRef, emissive, gen, loops, timers,
                 isPinging, ptr, button, clickPending, downPos, zooms, limit,
                 mounted, webglError, listeners, canvases, cleanups,
                 contextLoss>>
  /\ UNCHANGED <<positions, tracked, genVars>>

\* ---- lifecycle ------------------------------------------------------------
\* the parent renders the viewer with new panels and sensors arrays of the
\* same content: two dependencies of the mount effect change identity
Refresh ==
  /\ Ready
  /\ last' = Ev("other", None, FALSE, NoMarker, None)
  /\ UNCHANGED <<selectedComponent, hoveredComponent, isRotating,
                 selectedPanel, selectedSensor, pingingPanelId, isDraggingRef,
                 previousMouseRef, selectedComponentRef, timers, isPinging,
                 ptr, button, clickPending, downPos>>
  /\ RerenderIf(TRUE, camera, emissive)

\* the viewer is removed from the page: React runs the cleanup of the last
\* effect run
Unmount ==
  /\ Ready
  /\ mounted' = FALSE
  /\ listeners' = CleanupListeners
  /\ canvases' = CleanupCanvases
  /\ cleanups' = CleanupCount
  /\ last' = Ev("other", None, FALSE, NoMarker, None)
  /\ UNCHANGED <<selectedComponent, hoveredComponent, isRotating,
                 selectedPanel, selectedSensor, pingingPanelId, isDraggingRef,
                 previousMouseRef, panelMarkersRef, sensorMarkersRef,
                 selectedComponentRef, hoveredComponentRef, camera, emissive,
                 gen, loops, timers, isPinging, ptr, button, clickPending,
                 downPos, zooms, limit, webglError, contextLoss>>
  /\ UNCHANGED <<positions, stale, tracked, genVars>>

Next ==
  \/ \E p \in Pos, hit \in Members \cup {None} : OnMouseMove(p, hit)
  \/ OnMouseDown
  \/ OnMouseUp
  \/ ReleaseOutside
  \/ \E mk \in MarkerHits \cup {NoMarker}, mh \in Members \cup {None} :
        OnClick(mk, mh)
  \/ \E deltaY \in {-1, 1} : OnWheel(deltaY)
  \/ HandleZoomIn
  \/ HandleZoomOut
  \/ HandleZoomReset
  \/ ClosePropertiesPanel
  \/ ClosePanelDetail
  \/ \E s \in Sensors : PanelSensorClick(s)
  \/ CloseSensorModal
  \/ OnPing
  \/ TimerFire
  \/ Tick

Spec == Init /\ [][Next]_vars

\* the pointer, wheel and view-control handlers over a scene region where no
\* ray intersects a marker or a member
CamNext ==
  \/ \E p \in CamPos : OnMouseMove(p, None)
  \/ OnMouseDown
  \/ OnMouseUp
  \/ ReleaseOutside
  \/ OnClick(NoMarker, None)
  \/ \E deltaY \in {-1, 1} : OnWheel(deltaY)
  \/ HandleZoomIn
  \/ HandleZoomOut
  \/ HandleZoomReset
  \/ Tick

CamSpec == CamInit /\ [][CamNext]_vars

\* the handlers on the way to a ping and those that can run while pings are
\* pending, over a scene region where no ray intersects a member
PingNext ==
  \/ \E p \in Pos : OnMouseMove(p, None)
  \/ OnMouseDown
  \/ OnMouseUp
  \/ ReleaseOutside
  \/ \E mk \in MarkerHits \cup {NoMarker} : OnClick(mk, None)
  \/ HandleZoomReset
  \/ ClosePanelDetail
  \/ \E s \in Sensors : PanelSensorClick(s)
  \/ CloseSensorModal
  \/ OnPing
  \/ TimerFire

\* a pending click is dispatched, and a due timeout runs once the event loop
\* is free, however often pointer events are dispatched before it
LiveSpec ==
  /\ LiveInit /\ [][PingNext]_vars
  /\ WF_vars(\E mk \in MarkerHits \cup {NoMarker} : OnClick(mk, None))
  /\ SF_vars(TimerFire)

\* the effect through its re-runs (pointer-down, reset, data refresh), with
\* renderer creations that can throw, up to the unmount, over a scene region
\* where no ray intersects a member
MountNext ==
  \/ \E p \in Pos : OnMouseMove(p, None)
  \/ OnMouseDown
  \/ OnMouseUp
  \/ ReleaseOutside
  \/ \E mk \in MarkerHits \cup {NoMarker} : OnClick(mk, None)
  \/ HandleZoomReset
  \/ ClosePanelDetail
  \/ Refresh
  \/ Unmount
  \/ Tick
  \/ \E g \in loops : StaleTick(g, NoMesh)

MountSpec == MountInit /\ [][MountNext]_vars

\* the same operations over supplied records that may lack a finite position
DataSpec == DataInit /\ [][MountNext]_vars

\* the viewer with the cameras of replaced effect runs followed and every
\* call of animate recorded
FrameInit ==
  /\ limit = MountMaxCost
  /\ contextLoss = TRUE
  /\ positions = AllFinite
  /\ tracked = TRUE
  /\ InitState(TRUE)
  /\ GenState

\* the effect re-runs of MountNext, and pings
FrameNext ==
  \/ \E p \in Pos : OnMouseMove(p, None)
  \/ OnMouseDown
  \/ OnMouseUp
  \/ \E mk \in MarkerHits \cup {NoMarker} : OnClick(mk, None)
  \/ HandleZoomReset
  \/ CloseSensorModal
  \/ OnPing
  \/ TimerFire
  \/ Refresh
  \/ Unmount
  \/ Tick
  \/ \E g \in loops : StaleTick(g, NoMesh)

FrameSpec == FrameInit /\ [][FrameNext]_vars

\* ---- structure generator (createWarehouse) ---------------------------------
\* Lengths of the generator are whole centimetres.  One call of
\* createWarehouse is followed pass by pass: every step is one addFraming
\* call or one iteration of the buildWallStuds loop.  Meshes that are neither
\* registry members nor wall framing of buildWallStuds (plates, rods, panels,
\* the curved wing) are not followed.
W == 1400
D == 1600
eaveH == 520
ridgeH == 320
bay == 200
studS == 5
studSpacing == 45
curveHeight == 480
floorTwoH == 280

\* cz + Math.cos(curveStartAngle) * curveRadius = cos(0.4 pi) * 7 = 2.163
connZ1 == 216

\* cz + Math.cos(curveEndAngle) * curveRadius, the same value: cos is even
connZ2 == 216

apexH == eaveH + ridgeH
hW == W \div 2
hD == D \div 2
upperH == eaveH - floorTwoH
numBaysD == D \div bay
numBaysW == W \div bay
trussSpacing == bay

\* values of the two Math.random() draws of one componentData call
Randoms == {0, 1} \X {0, 1}

\* an opening { start, end, headerH, sillH }; sillH = 0 when the literal has
\* no sillH
Opening(s, e, h, sill) == [start |-> s, end |-> e, headerH |-> h, sillH |-> sill]

frontOpenings ==
  <<Opening(-400, -220, 420, 100), Opening(-50, 50, 460, 0),
    Opening(220, 400, 420, 100)>>

backOpenings == <<Opening(-300, -150, 420, 120), Opening(200, 350, 420, 120)>>

leftOpenings ==
  <<Opening(-500, -320, 420, 100), Opening(-100, 100, 460, 0),
    Opening(300, 500, 420, 100)>>

rightOpenings == <<Opening(-500, -350, 420, 100), Opening(350, 500, 420, 100)>>

upperOpeningsFront ==
  <<Opening(-400, -250, floorTwoH + 220, floorTwoH + 80),
    Opening(-80, 80, floorTwoH + 220, floorTwoH + 80),
    Opening(250, 400, floorTwoH + 220, floorTwoH + 80)>>

upperOpeningsBack ==
  <<Opening(-300, -150, floorTwoH + 220, floorTwoH + 80),
    Opening(150, 300, floorTwoH + 220, floorTwoH + 80)>>

upperOpeningsL ==
  <<Opening(-500, -350, floorTwoH + 220, floorTwoH + 80),
    Opening(100, 300, floorTwoH + 220, floorTwoH + 80)>>

upperOpeningsR ==
  <<Opening(-400, -250, floorTwoH + 220, floorTwoH + 80),
    Opening(250, 400, floorTwoH + 220, floorTwoH + 80)>>

\* arguments of one buildWallStuds call
WallCall(wall, fixedCoord, rangeStart, rangeEnd, height, baseY, openings) ==
  [wall |-> wall, fixedCoord |-> fixedCoord, rangeStart |-> rangeStart,
   rangeEnd |-> rangeEnd, height |-> height, baseY |-> baseY,
   openings |-> openings]

\* the eight buildWallStuds calls in program order
WallCalls ==
  <<WallCall("front", -hD, -hW, hW, floorTwoH, 0, frontOpenings),
    WallCall("back", hD, -hW, hW, floorTwoH, 0, backOpenings),
    WallCall("left", -hW, -hD, hD, floorTwoH, 0, leftOpenings),
    WallCall("right", hW, -hD, hD, floorTwoH, 0, rightOpenings),
    WallCall("front", -hD, -hW, hW, upperH, floorTwoH, upperOpeningsFront),
    WallCall("back", hD, -hW, hW, upperH, floorTwoH, upperOpeningsBack),
    WallCall("left", -hW, -hD, hD, upperH, floorTwoH, upperOpeningsL),
    WallCall("right", hW, -hD, hD, upperH, floorTwoH, upperOpeningsR)>>

NoOpening == Opening(0, 0, 0, 0)

\* the first opening whose range, widened by studS on both sides, holds pos;
\* NoOpening for null
isInOpening(pos, openings) ==
  IF \E i \in 1..Len(openings) :
       pos >= openings[i].start - studS /\ pos <= openings[i].end + studS
  THEN openings[CHOOSE i \in 1..Len(openings) :
         /\ pos >= openings[i].start - studS
         /\ pos <= openings[i].end + studS
         /\ \A j \in 1..(i - 1) :
              ~(pos >= openings[j].start - studS
                  /\ pos <= openings[j].end + studS)]
  ELSE NoOpening

\* a mesh added by addSilentFraming in buildWallStuds: its kind, wall, storey
\* and running coordinate
Silent(kind, c, at) ==
  [kind |-> kind, wall |-> c.wall, baseY |-> c.baseY, at |-> at]

\* body of the buildWallStuds loop for call c at running coordinate pos
StudBody(c, pos) ==
  LET op == isInOpening(pos, c.openings) IN
  IF op # NoOpening
  THEN (IF Abs(pos - op.start) < studSpacing
        THEN {Silent("trimmer", c, op.start - studS)} \cup
             (IF op.headerH # 0 /\ op.headerH - c.baseY > 0
              THEN {Silent("jack", c, op.start + studS)} ELSE {})
        ELSE {}) \cup
       (IF Abs(pos - op.end) < studSpacing
        THEN {Silent("trimmer", c, op.end + studS)} \cup
             (IF op.headerH # 0 /\ op.headerH - c.baseY > 0
              THEN {Silent("jack", c, op.end - studS)} ELSE {})
        ELSE {}) \cup
       (IF op.headerH # 0 /\ Abs(2 * pos - (op.start + op.end)) < studSpacing
        THEN {Silent("header", c, (op.start + op.end) \div 2)} \cup
             (IF op.sillH # 0
              THEN {Silent("sill", c, (op.start + op.end) \div 2)} ELSE {})
        ELSE {})
  ELSE {Silent("stud", c, pos)}

\* variant: the counter lives outside the function and is carried over
CarriedId == _id

\* let _id = 0 at the start of a call
FreshId == 0

\* nextId(prefix): the id string `${prefix}-${++_id}`, kept as its two parts
NextId(prefix) == [prefix |-> prefix, seq |-> _id + 1]

\* variant: the ridge is labelled as a column
RidgeIdAsColumn == [prefix |-> "COL", seq |-> 1]

\* the literal 'RDG-1'
RidgeId == [prefix |-> "RDG", seq |-> 1]

Vec(x, y, z) == [x |-> x, y |-> y, z |-> z]

\* addFraming(geo, mat, pos, type, id, data, rot): the userData fields id,
\* type and position and the mesh rotation (in units of rafterAngle about Z)
\* of the mesh pushed to components; r are the draws of componentData
AddFraming(pos, type, id, r, rot) ==
  /\ components' = Append(components,
                          [id |-> id, type |-> type, pos |-> pos, rot |-> rot])
  /\ readings' = r

\* loop control: the next iteration of a pass of n iterations, or the first
\* of the following pass
Advance(n, following) ==
  IF idx + 1 < n
  THEN idx' = idx + 1 /\ phase' = phase
  ELSE idx' = 0 /\ phase' = following

CornerColumn(r) ==
  /\ phase = "corner"
  /\ AddFraming(Vec(IF idx \div 2 = 0 THEN -hW ELSE hW, eaveH \div 2,
                    IF idx % 2 = 0 THEN -hD ELSE hD),
                "Structural Column", NextId("COL"), r, 0)
  /\ _id' = _id + 1
  /\ Advance(4, "bayD")
  /\ UNCHANGED <<iter, silent, run, firstRun>>
  /\ UNCHANGED viewVars

BayColumnD(r) ==
  /\ phase = "bayD"
  /\ AddFraming(Vec(IF idx % 2 = 0 THEN -hW ELSE hW, eaveH \div 2,
                    -hD + (idx \div 2 + 1) * bay),
                "Wall Stud", NextId("STD"), r, 0)
  /\ _id' = _id + 1
  /\ Advance(2 * (numBaysD - 1), "bayW")
  /\ UNCHANGED <<iter, silent, run, firstRun>>
  /\ UNCHANGED viewVars

BayColumnW(r) ==
  /\ phase = "bayW"
  /\ AddFraming(Vec(-hW + (idx \div 2 + 1) * bay, eaveH \div 2,
                    IF idx % 2 = 0 THEN -hD ELSE hD),
                "Wall Stud", NextId("STD"), r, 0)
  /\ _id' = _id + 1
  /\ Advance(2 * (numBaysW - 1), "topPlate")
  /\ UNCHANGED <<iter, silent, run, firstRun>>
  /\ UNCHANGED viewVars

TopPlate(r) ==
  /\ phase = "topPlate"
  /\ AddFraming(IF idx < 2
                THEN Vec(0, eaveH, IF idx = 0 THEN -hD ELSE hD)
                ELSE Vec(IF idx = 2 THEN -hW ELSE hW, eaveH, 0),
                "Top Plate", NextId("TP"), r, 0)
  /\ _id' = _id + 1
  /\ Advance(4, "floorJoist")
  /\ UNCHANGED <<iter, silent, run, firstRun>>
  /\ UNCHANGED viewVars

FloorJoist(r) ==
  /\ phase = "floorJoist"
  /\ AddFraming(Vec(0, floorTwoH, -hD + idx * bay),
                "Floor Joist", NextId("FJ"), r, 0)
  /\ _id' = _id + 1
  /\ Advance(D \div bay + 1, "wallStuds")
  /\ UNCHANGED <<iter, silent, run, firstRun>>
  /\ UNCHANGED viewVars

\* one iteration of the for loop of the buildWallStuds call WallCalls[idx + 1]
\* with p = rangeStart + iter * studSpacing
WallStud ==
  /\ phase = "wallStuds"
  /\ LET c == WallCalls[idx + 1]
         pos == c.rangeStart + iter * studSpacing
     IN /\ silent' = silent \cup StudBody(c, pos)
        /\ IF pos + studSpacing <= c.rangeEnd
           THEN iter' = iter + 1 /\ UNCHANGED <<idx, phase>>
           ELSE iter' = 0 /\ Advance(Len(WallCalls), "truss")
  /\ UNCHANGED <<_id, components, readings, run, firstRun>>
  /\ UNCHANGED viewVars

\* the three addFraming calls of one iteration of the truss loop: two rafters
\* and the ceiling joist
TrussMember(r) ==
  /\ phase = "truss"
  /\ LET z == -hD + (idx \div 3) * trussSpacing IN
     CASE idx % 3 = 0 ->
            AddFraming(Vec(-(W \div 4), eaveH + ridgeH \div 2, z),
                       "Roof Rafter", NextId("RFT"), r, 1)
       [] idx % 3 = 1 ->
            AddFraming(Vec(W \div 4, eaveH + ridgeH \div 2, z),
                       "Roof Rafter", NextId("RFT"), r, -1)
       [] OTHER ->
            AddFraming(Vec(0, eaveH, z), "Ceiling Joist", NextId("CJ"), r, 0)
  /\ _id' = _id + 1
  /\ Advance(3 * (D \div trussSpacing + 1), "ridge")
  /\ UNCHANGED <<iter, silent, run, firstRun>>
  /\ UNCHANGED viewVars

Ridge(r) ==
  /\ phase = "ridge"
  /\ AddFraming(Vec(0, apexH, 0), "Ridge Board", RidgeId, r, 0)
  /\ Advance(1, "connection")
  /\ UNCHANGED <<_id, iter, silent, run, firstRun>>
  /\ UNCHANGED viewVars

ConnectionColumn(r) ==
  /\ phase = "connection"
  /\ AddFraming(Vec(hW, curveHeight \div 2, IF idx = 0 THEN connZ1 ELSE connZ2),
                "Structural Column", NextId("COL"), r, 0)
  /\ _id' = _id + 1
  /\ Advance(2, "done")
  /\ UNCHANGED <<iter, silent, run, firstRun>>
  /\ UNCHANGED viewVars

\* the call returns group with userData.components = components; the next
\* call of createWarehouse starts with an empty registry
NextCall ==
  /\ phase = "done"
  /\ run < MaxRuns
  /\ run' = run + 1
  /\ firstRun' = IF run = 1
                 THEN [components |-> components, readings |-> readings]
                 ELSE firstRun
  /\ components' = <<>>
  /\ silent' = {}
  /\ _id' = FreshId
  /\ phase' = "corner"
  /\ UNCHANGED <<idx, iter, readings>>
  /\ UNCHANGED viewVars

GenNext ==
  \/ \E r \in Randoms : CornerColumn(r)
  \/ \E r \in Randoms : BayColumnD(r)
  \/ \E r \in Randoms : BayColumnW(r)
  \/ \E r \in Randoms : TopPlate(r)
  \/ \E r \in Randoms : FloorJoist(r)
  \/ WallStud
  \/ \E r \in Randoms : TrussMember(r)
  \/ \E r \in Randoms : Ridge(r)
  \/ \E r \in Randoms : ConnectionColumn(r)
  \/ NextCall

GenSpec == GenInit /\ [][GenNext]_vars

\* ---- properties ------------------------------------------------------------
\* meshes of every scene generation built so far
AllMeshes == {Mesh(g, m) : g \in 0..gen, m \in Members}

InBand(c) == Dist2(c) >= MinDist * MinDist /\ Dist2(c) <= MaxDist * MaxDist

MemberClick ==
  last.op = "click" /\ last.tested /\ last.marker = NoMarker /\ last.member # None

MarkerClick == last.op = "click" /\ last.tested /\ last.marker # NoMarker

\* C1: a member selection and an entity selection never coexist:
\* selectedComponent is non-null only when selectedPanel and selectedSensor
\* are both null.
C1_SelectionExclusive ==
  selectedComponent # None => selectedPanel = None /\ selectedSensor = None

\* an entity was selected by a marker click after a member had been selected
C1_Witness ==
  MarkerClick /\ selectedComponentRef # NoMesh /\ selectedPanel # None

\* C2: a click performs the hit-test if and only if the pointer is at most
\* 5px away from the position of the preceding pointer-down.
C2_ClickIffWithinThreshold ==
  [][last'.op = "click" => (last'.tested <=> ~Displaced(ptr, downPos))]_vars

\* C3: after a member-selecting click, the clicked member carries the
\* selected tint and no other member of the scene does.
C3_OnlyLastSelectedTinted ==
  MemberClick =>
    \A m \in Members :
      (TintOf(Mesh(gen, m)) = "selected") <=> (m = last.member)

\* C4: while a member is selected, a pointer-move leaves it carrying the
\* selected tint.
C4_MoveKeepsSelectedTint ==
  (last.op = "move" /\ selectedComponent # None)
    => TintOf(selectedComponentRef) = "selected"

\* C5: at most one member carries the hover tint, and after a pointer-move
\* (not dragging) that hits no member, no member other than the selected one
\* carries any tint.
C5_SingleHoverTint ==
  /\ \A a, b \in AllMeshes :
       TintOf(a) = "hover" /\ TintOf(b) = "hover" => a = b
  /\ (last.op = "move" /\ last.tested /\ hoveredComponent = NoMesh)
       => \A a \in AllMeshes :
            a # selectedComponentRef => TintOf(a) = "none"

\* C6: on a click that performs the hit-test and whose ray intersects a
\* marker, that panel or sensor becomes the selection and the click neither
\* selects nor tints a member, also when the ray intersects a member too.
C6_MarkersFirst ==
  [][(last'.op = "click" /\ last'.tested /\ last'.marker # NoMarker)
       => /\ selectedComponent' = None
          /\ selectedComponentRef' = selectedComponentRef
          /\ emissive' = emissive
          /\ last'.marker.type = "panel" => selectedPanel' = last'.marker.id
          /\ last'.marker.type = "sensor" => selectedSensor' = last'.marker.id]_vars

\* the ray of a click intersected a marker and a member
C6_Witness == MarkerClick /\ last.covered

\* C7: after every zoom request (zoom in, zoom out, wheel) the camera's
\* distance from the origin lies in [10, 45].
C7_ZoomWithinBand == last.op = "zoom" => InBand(camera)

\* a zoom request was cut back to the far end of the band
C7_Witness ==
  last.op = "zoom" /\ Dist2(camera) > (MaxDist - 2) * (MaxDist - 2)

\* C8: after a reset request the camera is at the default position,
\* auto-rotation is enabled and no member, panel or sensor is selected.
C8_ResetRestoresDefaults ==
  last.op = "reset" =>
    /\ camera = DefaultCam
    /\ isRotating
    /\ selectedComponent = None
    /\ selectedPanel = None
    /\ selectedSensor = None

C10_PingSelfTerminates ==
  /\ [](last.op = "ping" => pingingPanelId = last.arg)
  /\ [](pingingPanelId # None => <>(pingingPanelId = None))

\* a timeout ended a ping
C10_Witness == last.op = "timer" /\ pingingPanelId = None /\ Len(timers) = 0

\* C11: ping requests on different panels are independent: a request for
\* panel q leaves the pulse of another panel p active while p's timeout is
\* pending, and the timeout scheduled by p's request does not end the pulse
\* of a different panel q.
C11_OverlappingPingsIndependent ==
  [][/\ (last'.op = "ping" /\ last'.arg \in Panels) =>
          \A i \in 1..Len(timers) :
            (/\ timers[i].panel \in Panels
             /\ timers[i].panel # last'.arg
             /\ pingingPanelId = timers[i].panel)
              => pingingPanelId' = timers[i].panel
     /\ (/\ last'.op = "timer"
         /\ pingingPanelId \in Panels
         /\ Head(timers).panel \in Panels
         /\ pingingPanelId # Head(timers).panel)
          => pingingPanelId' = pingingPanelId]_vars

\* C12: a ping request whose panel id matches no panel marker changes
\* nothing: the scene, the camera, the marker collections and the selection
\* are as they were before the request.
C12_UnknownPingNoOp ==
  [][(last'.op = "ping" /\ FindPanel(last'.arg) = None)
       => /\ gen' = gen
          /\ camera' = camera
          /\ panelMarkersRef' = panelMarkersRef
          /\ sensorMarkersRef' = sensorMarkersRef
          /\ selectedComponent' = selectedComponent
          /\ selectedPanel' = selectedPanel
          /\ selectedSensor' = selectedSensor]_vars

\* the current effect run created its renderer
Rendering == mounted /\ gen \in canvases

\* C13: after any sequence of data refreshes and scene rebuilds the marker
\* collections hold exactly one marker per supplied panel and one per
\* supplied sensor, all of the scene currently rendered.
C13_MarkerRefsCurrent ==
  Rendering => /\ panelMarkersRef = NewPanelMarkers(gen)
               /\ sensorMarkersRef = NewSensorMarkers(gen)

\* C14: once the cleanup of an effect run has run, no frame callback of that
\* run executes again, so the only render loop is that of the current mount
\* and none is left after the unmount.
C14_SingleRenderLoop ==
  /\ last.op # "stale"
  /\ loops \subseteq (IF mounted THEN {gen} ELSE {})

\* C15: the cleanup of a successful effect run detaches all six listeners of
\* that run and removes its canvas, so only the listeners and the canvas of
\* the current run remain (none after the unmount), and the cleanup of every
\* replaced run has run exactly once.
C15_CleanupDetachesAll ==
  /\ listeners \subseteq (IF mounted THEN AttachListeners(gen) ELSE {})
  /\ canvases \subseteq (IF mounted THEN {gen} ELSE {})
  /\ \A g \in 0..limit : cleanups[g] <= 1
  /\ \A g \in loops : (g < gen \/ ~mounted) => cleanups[g] = 1

\* the viewer was unmounted after a re-run of the effect, both runs having
\* created their renderer
C15_Witness ==
  ~mounted /\ gen >= 1 /\ cleanups[0] = 1 /\ cleanups[gen] = 1

\* C16: whenever webglError is set, no listener is attached and no render
\* loop is running, also after later re-runs of the mount effect.
C16_FallbackInert == webglError => listeners = {} /\ loops = {}

\* openings of the ground-floor wall a bay-grid member stands on
GroundOpenings(wall) ==
  CASE wall = "front" -> frontOpenings
    [] wall = "back" -> backOpenings
    [] wall = "left" -> leftOpenings
    [] OTHER -> rightOpenings

\* wall and running coordinate of a registry member on the perimeter; the
\* corner columns stand on two walls and are not 'Wall Stud' members
WallOf(m) ==
  IF m.pos.z = -hD THEN "front" ELSE IF m.pos.z = hD THEN "back"
  ELSE IF m.pos.x = -hW THEN "left" ELSE "right"

RunningCoord(m) == IF m.pos.z \in {-hD, hD} THEN m.pos.x ELSE m.pos.z

StrictlyInside(at, openings) ==
  \E i \in 1..Len(openings) : openings[i].start < at /\ at < openings[i].end

\* C17: two calls of createWarehouse produce registries with the same ids,
\* kinds, positions and rotations in the same order and number; only the
\* random readings may differ.
C17_GeneratorDeterministic ==
  run > 1 =>
    /\ Len(components) <= Len(firstRun.components)
    /\ \A i \in 1..Len(components) : components[i] = firstRun.components[i]
    /\ phase = "done" => Len(components) = Len(firstRun.components)

\* a second call has returned after drawing other readings than the first
C17_Witness ==
  phase = "done" /\ run = 2 /\ readings # firstRun.readings

\* C18: within one call no two registry members have the same id, the
\* ridge 'RDG-1' and the connection columns included.
C18_IdsUnique ==
  \A i, j \in 1..Len(components) :
    components[i].id = components[j].id => i = j

\* the call has returned: the registry holds the ridge, COL-1 and the two
\* connection columns
C18_Witness ==
  /\ phase = "done"
  /\ \E i \in 1..Len(components) : components[i].id = RidgeId
  /\ components[1].id = [prefix |-> "COL", seq |-> 1]
  /\ components[Len(components)].type = "Structural Column"

\* C19: no 'Wall Stud' member of the bay grid and no stud placed by
\* buildWallStuds has its running coordinate strictly inside an opening of
\* its wall.
C19_NoStudInsideOpening ==
  /\ \A i \in 1..Len(components) :
       components[i].type = "Wall Stud" =>
         ~StrictlyInside(RunningCoord(components[i]),
                         GroundOpenings(WallOf(components[i])))
  /\ \A m \in silent :
       m.kind = "stud" =>
         \A k \in 1..Len(WallCalls) :
           (WallCalls[k].wall = m.wall /\ WallCalls[k].baseY = m.baseY)
             => ~StrictlyInside(m.at, WallCalls[k].openings)

\* C20: walking the registry in placement order, the sequence numbers of the
\* ids are strictly increasing, so none is issued twice.
C20_SequenceIncreasing ==
  \A i, j \in 1..Len(components) :
    i < j => components[i].id.seq < components[j].id.seq

\* the first run of the mount effect has ended and its cleanup has not run
FirstMount == gen = 0 /\ cleanups[0] = 0

\* C21: a supplied panel or sensor record without a finite position is
\* skipped: the mount completes and its render loop runs, no marker exists
\* for that record and hit-testing never returns it, and every other supplied
\* record has its marker.
C21_DefectiveRecordSkipped ==
  FirstMount =>
    /\ mounted
    /\ gen \in loops
    /\ \A i \in Panels :
         IF positions.panel[i] = "finite"
         THEN \E k \in 1..Len(panelMarkersRef) :
                panelMarkersRef[k] = [gen |-> gen, panel |-> i]
         ELSE /\ \A k \in 1..Len(panelMarkersRef) :
                   panelMarkersRef[k].panel # i
              /\ [type |-> "panel", id |-> i] \notin MarkerHits
    /\ \A i \in Sensors :
         IF positions.sensor[i] = "finite"
         THEN \E k \in 1..Len(sensorMarkersRef) :
                sensorMarkersRef[k] = [gen |-> gen, sensor |-> i]
         ELSE /\ \A k \in 1..Len(sensorMarkersRef) :
                   sensorMarkersRef[k].sensor # i
              /\ [type |-> "sensor", id |-> i] \notin MarkerHits

\* the last event was a click resolved to the marker of a sensor whose
\* panel_id is the id of no supplied panel
OrphanSensorClick ==
  /\ MarkerClick
  /\ last.marker.type = "sensor"
  /\ PanelIdOf(last.marker.id) \notin Panels

\* C22: a click on the marker of a sensor whose panel_id matches no supplied
\* panel raises no error: the sensor becomes the selected sensor, the
\* selected panel is none, the member selection is cleared, and the sensor
\* action view, which is shown, gives the location 'Unknown'.
C22_OrphanSensorSelected ==
  OrphanSensorClick =>
    /\ mounted
    /\ selectedSensor = last.marker.id
    /\ selectedPanel = None
    /\ selectedComponent = None
    /\ ModalLocation(selectedPanel) = "Unknown"

\* such a click happened after a member had been selected
C22_Witness ==
  OrphanSensorClick /\ selectedSensor = last.marker.id /\ selectedComponentRef # NoMesh

\* the frame of the last event when it was a call of animate
Frame == last.frame

\* C23: every call of animate updates the camera, advances the marker
\* animation (pulse, then the ping override), renders and projects last, in
\* this order: the render draws the updated camera pose and the advanced
\* rings, and the projection it publishes is computed from the camera pose
\* the render of the same call drew.
C23_FrameOrder ==
  Frame # NoFrame =>
    /\ Frame.rendered = [pose |-> Frame.pose, ring |-> Frame.ring]
    /\ Frame.projected # NoPose => Frame.projected = Frame.rendered.pose

\* C24: while the viewer stays mounted, a change of hoveredComponent,
\* isRotating or pingingPanelId neither regenerates the members nor rebuilds
\* the scene, so the member selected last is a member of the scene that is
\* rendered and hit-tested.
C24_StructureGeneratedOnce ==
  [][(mounted /\ mounted' /\ DepsChanged) =>
       /\ gen' = gen
       /\ selectedComponentRef' # NoMesh => selectedComponentRef'.gen = gen']_vars

\* C25: auto-rotation and manual drag never both move the camera: a
\* pointer-move changes the camera pose only when the dragging flag is set and
\* auto-rotation is disabled, and a render tick changes it only when
\* auto-rotation is enabled.
C25_DragXorRotation ==
  [][/\ (last'.op = "move" /\ gen' = gen /\ camera' # camera) =>
          (isDraggingRef /\ ~isRotating)
     /\ (Tick /\ camera' # camera) => isRotating]_vars

\* the pointer moved to the lower position with the dragging flag set while
\* auto-rotation was enabled, and the camera stayed on its orbit
C25_Witness ==
  /\ last.op = "move"
  /\ isDraggingRef /\ isRotating
  /\ ptr.y # 0
  /\ camera = OrbitPos

\* the next event is a hover test, a click, the start of a ping or the end of
\* one
SelectionEvent ==
  \/ last'.op = "move" /\ ~isDraggingRef
  \/ last'.op = "click"
  \/ last'.op = "ping"
  \/ last'.op = "timer"

\* C26: hovering onto or off a member, selecting a member or a marker, and
\* starting or ending a ping leave the camera pose unchanged.
C26_CameraKeptBySelection == [][SelectionEvent => camera' = camera]_vars

\* C27: the ref and the state that hold the member selection agree on whether
\* a member is selected: selectedComponentRef is non-null exactly when
\* selectedComponent is non-null.
C27_RefMatchesSelection ==
  (selectedComponentRef # NoMesh) <=> (selectedComponent # None)

\* C28: a zoom request takes lasting effect in every interaction state: the
\* camera distance it produced is still the camera distance after the next
\* render tick, auto-rotation enabled or not.
C28_ZoomLasts ==
  [][(Tick /\ last.op = "zoom") => Dist2(camera') = Dist2(camera)]_vars

\* C29: the dragging flag is set only while a pointer button is held, so a
\* pointer-move made with no button held, whether the button was released
\* inside or outside the container, performs the hover hit-test.
C29_DragOnlyWhileHeld ==
  /\ isDraggingRef => button
  /\ (last.op = "move" /\ ~button) => last.tested

\* C30: the camera's distance from the origin lies in [10, 45] in every
\* reachable state: after zoom requests, drag-orbit updates, auto-rotation
\* ticks and reset, in any interleaving.
C30_DistanceAlwaysInBand == InBand(camera)

====
